---- MODULE Spec2Model ----
(***************************************************************************)
(* A model of liquidcn's speech-to-text path: the server handler           *)
(* (src/speech-to-text/server.ts), the streaming fallback's SSE reader,    *)
(* the client hook useSpeechToText and the ChatView component that drives  *)
(* them from the voice button; and of its form and navigation components:  *)
(* FormBuilder with its wizard, pinned and hidden fields and AI/Edit mode,  *)
(* FormSection's collapsed state, DiscriminatedUnionSection, and Tabs with  *)
(* a queryKey.                                                              *)
(*                                                                         *)
(* Text is modelled as a sequence of one-character strings, so that        *)
(* split / startsWith / includes / slice / trim work on characters as the  *)
(* JavaScript code does.                                                   *)
(***************************************************************************)
EXTENDS Integers, Sequences, FiniteSets, TLC

VARIABLES
    \* ---- createSpeechToTextHandler: the handler and the request in hand
    options,        \* the options the handler was created with
    env,            \* process.env.OPENAI_API_KEY at the time of the request
    req,            \* the request in hand: its form fields, or an unreadable body
    pc,             \* the handler's position in the request
    authResult,     \* what options.authenticate(req) returned for this request
    model,          \* the model chosen at server.ts:162-163
    language,       \* the language chosen at server.ts:161
    authCalls,      \* calls of options.authenticate for this request
    formReads,      \* calls of req.formData() for this request
    stdCalls,       \* models of the calls of transcribe(...) (the standard attempt)
    streamCalls,    \* models of the POSTs to the streaming endpoint (the fallback)
    stdResult,      \* the standard attempt's outcome
    upstream,       \* the streaming endpoint's answer
    resp,           \* the Response the handler returned
    \* ---- transcribeStreaming's reader loop on one response
    body,           \* the characters of the response body
    readPos,        \* how many of them reader.read() has handed out
    text,           \* the text collected so far (server.ts:53)
    readerPc,       \* "reading" | "done"
    transcript,     \* the text transcribeStreaming returned
    \* ---- useSpeechToText
    hookOptions,    \* the options given to the hook: which callbacks it has
    state,          \* the hook's React state {data, error, isLoading}
    calls,          \* the calls of transcribe: position, response, result, callbacks run
    \* ---- ChatView (its useSpeechToText state is the variable state above)
    input,          \* the draft in the textarea
    status,         \* the status prop
    enableVoice,    \* the enableVoice prop
    isRecording,    \* React state
    isProcessingAudio, \* React state
    mediaRecorder,  \* React state: the recorder's id, or 0 for null
    recorders,      \* every MediaRecorder made so far, with its stream and its onstop run
    pendingMedia,   \* calls of getUserMedia not yet settled
    audioChunks,    \* audioChunksRef.current: the number of blobs in it
    sent,           \* the messages onSend was called with, in order
    \* ---- FormBuilder
    props,          \* the props FormBuilder was mounted with
    fields,         \* form.fields: the entries [key, field] in Object.entries order
    currentStep,    \* React state: the wizard's step index
    mode,           \* React state: "ai" | "edit"
    isCollapsed,    \* React state: the collapsible card is collapsed
    \* ---- DiscriminatedUnionSection
    unionField,     \* the field prop: a section whose children carry conditions
    formData,       \* form.data: the value at the key of each child
    \* ---- Tabs with a queryKey
    tabsProps,      \* the props Tabs was mounted with
    internalValue,  \* React state: the selected tab
    entries,        \* the session history: the query string of each entry
    current,        \* the index of the current entry
    tabsPc          \* "rendered" (effects not yet run) | "mounted"

srvVars == <<options, env, req, pc, authResult, model, language, authCalls,
             formReads, stdCalls, streamCalls, stdResult, upstream, resp>>

streamVars == <<body, readPos, text, readerPc, transcript>>

hookVars == <<hookOptions, state, calls>>

chatVars == <<input, status, enableVoice, isRecording, isProcessingAudio,
              mediaRecorder, recorders, pendingMedia, audioChunks, sent>>

formVars == <<props, fields, currentStep, mode, isCollapsed>>

unionVars == <<unionField, formData>>

tabsVars == <<tabsProps, internalValue, entries, current, tabsPc>>

vars == <<srvVars, streamVars, hookVars, chatVars, formVars, unionVars, tabsVars>>

\* What each component leaves alone: the state of the others.
notSrv == <<streamVars, hookVars, chatVars, formVars, unionVars, tabsVars>>
notStream == <<srvVars, hookVars, chatVars, formVars, unionVars, tabsVars>>
notHook == <<srvVars, streamVars, chatVars, formVars, unionVars, tabsVars>>
notChat == <<srvVars, streamVars, hookOptions, calls, formVars, unionVars, tabsVars>>
notForm == <<srvVars, streamVars, hookVars, chatVars, unionVars, tabsVars>>
notUnion == <<srvVars, streamVars, hookVars, chatVars, formVars, tabsVars>>
notTabs == <<srvVars, streamVars, hookVars, chatVars, formVars, unionVars>>

----------------------------------------------------------------------------
(* JavaScript values and text                                              *)

\* Values other than text are written as tagged strings.
Undefined == "<undefined>"
Null == "<null>"
JsFalse == "<false>"
JsTrue == "<true>"
JsZero == "<0>"
JsOne == "<1>"
FileValue == "<File>"

\* JavaScript's ToBoolean on the values above and on strings.
Truthy(v) == v \notin {Undefined, Null, JsFalse, JsZero, ""}

\* a || b
OrElse(a, b) == IF Truthy(a) THEN a ELSE b

Space == " "
Newline == "\n"
Whitespace == {Space, Newline, "\t", "\r"}

RECURSIVE TrimStart(_)
TrimStart(s) ==
    IF s # <<>> /\ Head(s) \in Whitespace THEN TrimStart(Tail(s)) ELSE s

RECURSIVE TrimEnd(_)
TrimEnd(s) ==
    IF s # <<>> /\ s[Len(s)] \in Whitespace
    THEN TrimEnd(SubSeq(s, 1, Len(s) - 1))
    ELSE s

\* String.prototype.trim
Trim(s) == TrimEnd(TrimStart(s))

\* String.prototype.startsWith
StartsWith(s, p) == Len(s) >= Len(p) /\ SubSeq(s, 1, Len(p)) = p

\* String.prototype.includes
Includes(s, p) ==
    \E i \in 1..(Len(s) - Len(p) + 1) : SubSeq(s, i, i + Len(p) - 1) = p

\* String.prototype.slice(n)
SliceFrom(s, n) == SubSeq(s, n + 1, Len(s))

\* String.prototype.split('\n'): the pieces between the line breaks, the empty
\* ones included.
RECURSIVE SplitLines(_)
SplitLines(s) ==
    IF \A i \in 1..Len(s) : s[i] # Newline
    THEN <<s>>
    ELSE LET i == CHOOSE k \in 1..Len(s) :
                      s[k] = Newline /\ \A j \in 1..(k - 1) : s[j] # Newline
         IN <<SubSeq(s, 1, i - 1)>> \o SplitLines(SubSeq(s, i + 1, Len(s)))

----------------------------------------------------------------------------
(* transcribeStreaming's reader loop (server.ts:48-74)                      *)

DataPrefix == <<"d", "a", "t", "a", ":", " ">>
DoneMark == <<"[", "D", "O", "N", "E", "]">>
JsonTextOpen == <<"{", "\"", "t", "e", "x", "t", "\"", ":", "\"">>
JsonTextClose == <<"\"", "}">>
Digits == {"0", "1", "2", "3", "4", "5", "6", "7", "8", "9"}

\* JSON.parse on a payload, for the payloads the model's responses hold: an
\* object {"text":"..."} (no escapes inside), a number, or anything else, which
\* is no JSON and throws.
JsonParse(p) ==
    IF /\ StartsWith(p, JsonTextOpen)
       /\ Len(p) >= Len(JsonTextOpen) + Len(JsonTextClose)
       /\ SubSeq(p, Len(p) - 1, Len(p)) = JsonTextClose
       /\ \A i \in (Len(JsonTextOpen) + 1)..(Len(p) - 2) : p[i] \notin {"\"", "\\"}
    THEN [ok |-> TRUE, kind |-> "object",
          text |-> SubSeq(p, Len(JsonTextOpen) + 1, Len(p) - 2)]
    ELSE IF p # <<>> /\ \A i \in 1..Len(p) : p[i] \in Digits
    THEN [ok |-> TRUE, kind |-> "number", text |-> <<>>]
    ELSE [ok |-> FALSE, kind |-> "throws", text |-> <<>>]

\* server.ts:61-69 for one line: what the line adds to the text.
LineText(line) ==
    IF StartsWith(line, DataPrefix) /\ ~Includes(line, DoneMark)
    THEN LET parsed == JsonParse(SliceFrom(line, 6))
         IN IF parsed.ok
            THEN (IF parsed.kind = "object" /\ parsed.text # <<>>
                  THEN parsed.text ELSE <<>>)
            ELSE SliceFrom(line, 6)
    ELSE <<>>

RECURSIVE LinesText(_)
LinesText(lines) ==
    IF lines = <<>> THEN <<>> ELSE LineText(Head(lines)) \o LinesText(Tail(lines))

\* server.ts:58-70: one chunk read from the stream, split into lines on its own.
ChunkText(chunk) == LinesText(SplitLines(chunk))

RECURSIVE ChunksText(_)
ChunksText(chunks) ==
    IF chunks = <<>> THEN <<>> ELSE ChunkText(Head(chunks)) \o ChunksText(Tail(chunks))

\* server.ts:53-73: the text transcribeStreaming returns for the chunks read.
StreamingText(chunks) == Trim(ChunksText(chunks))

----------------------------------------------------------------------------
(* createSpeechToTextHandler (server.ts:134-196)                            *)

DEFAULT_MODEL == "gpt-4o-transcribe"
TranscriptionModel == {"gpt-4o-transcribe", "gpt-4o-mini-transcribe", "whisper-1"}

ErrMissingKey == "Missing OPENAI_API_KEY environment variable"
ErrUnauthorized == "Unauthorized"
ErrAudioRequired == "Audio file is required"
ErrFailed == "Failed to transcribe audio"

\* The values the model draws the inputs from.
ApiKeys == {Undefined, "", "sk-test"}
AuthOptions == {Undefined, "function"}
DefaultModelOptions == {Undefined, "whisper-1", "gpt-4o-mini-transcribe"}
AuthReturns == {JsTrue, JsFalse, Undefined, Null, JsZero, JsOne, "", "user-1"}
AudioFields == {Null, "", FileValue, "not-a-file"}
ModelFields == {Null, "", "whisper-1", "gpt-4o-transcribe"}
LanguageFields == {Null, "", "en"}
UpstreamStatuses == {200, 400, 401, 429, 500, 503}

Hi == <<"h", "i">>
StandardResults == {
    [ok |-> TRUE, text |-> Hi, language |-> "en"],
    [ok |-> TRUE, text |-> <<>>, language |-> Undefined],
    [ok |-> FALSE, text |-> <<>>, language |-> Undefined] }

\* A few answers of the streaming endpoint, already divided into chunks.
SampleStreams == {
    <<DataPrefix \o Hi \o <<Newline>>>>,
    <<DataPrefix \o JsonTextOpen \o Hi \o JsonTextClose \o <<Newline>>,
      DataPrefix \o DoneMark \o <<Newline>>>>,
    <<>> }

NoRequest == [valid |-> FALSE, audio |-> Null, model |-> Null, language |-> Null]
NoUpstream == [kind |-> "none", status |-> 0, chunks |-> <<>>]
NoStdResult == [ok |-> FALSE, text |-> <<>>, language |-> Undefined]
NoResp == [status |-> 0, body |-> [error |-> "<none>"]]

Requests ==
    {NoRequest} \cup
    [valid : {TRUE}, audio : AudioFields, model : ModelFields, language : LanguageFields]

\* new Response(JSON.stringify(body), {status})
JsonResponse(code, json) == [status |-> code, body |-> json]

\* The messages of the errors the handler's catch can see.
StreamFailedMessage(code) == <<"OpenAI streaming transcription failed: ", code>>
NoBodyMessage == <<"No response body for streaming transcription">>

\* server.ts:185-194: the catch of the handler. thrown.isError says whether the
\* thrown value is an Error.
StatusOfFailureForwarded(thrown) ==
    IF thrown.status # 0 THEN thrown.status ELSE 500

StatusOfFailure(thrown) == 500

CatchResponse(thrown) ==
    JsonResponse(StatusOfFailure(thrown),
                 [error |-> ErrFailed,
                  details |-> IF thrown.isError THEN thrown.message
                              ELSE <<"Unknown error">>])

Thrown(isError, message, code) ==
    [isError |-> isError, message |-> message, status |-> code]

\* server.ts:162-163
ChooseModelIgnoringDefault(formModel, defaultModel) ==
    OrElse(formModel, DEFAULT_MODEL)

ChooseModel(formModel, defaultModel) ==
    OrElse(OrElse(formModel, defaultModel), DEFAULT_MODEL)

\* server.ts:29 and server.ts:92
ModelOrDefault(m) == OrElse(m, DEFAULT_MODEL)

SrvInit ==
    /\ options \in [authenticate : AuthOptions, defaultModel : DefaultModelOptions]
    /\ env = Undefined
    /\ req = NoRequest
    /\ pc = "idle"
    /\ authResult = Undefined
    /\ model = Undefined
    /\ language = Undefined
    /\ authCalls = 0
    /\ formReads = 0
    /\ stdCalls = <<>>
    /\ streamCalls = <<>>
    /\ stdResult = NoStdResult
    /\ upstream = NoUpstream
    /\ resp = NoResp

\* A request arrives (server.ts:135): the handler starts on it.
Receive ==
    /\ UNCHANGED notSrv
    /\ pc \in {"idle", "done"}
    /\ env' \in ApiKeys
    /\ req' \in Requests
    /\ pc' = "checkKey"
    /\ authResult' = Undefined
    /\ model' = Undefined
    /\ language' = Undefined
    /\ authCalls' = 0
    /\ formReads' = 0
    /\ stdCalls' = <<>>
    /\ streamCalls' = <<>>
    /\ stdResult' = NoStdResult
    /\ upstream' = NoUpstream
    /\ resp' = NoResp
    /\ UNCHANGED options

Respond(r) == pc' = "done" /\ resp' = r

\* server.ts:137-145
CheckApiKeySkipped ==
    /\ UNCHANGED notSrv
    /\ pc = "checkKey"
    /\ pc' = "auth"
    /\ UNCHANGED <<options, env, req, authResult, model, language, authCalls,
                   formReads, stdCalls, streamCalls, stdResult, upstream, resp>>

CheckApiKey ==
    /\ UNCHANGED notSrv
    /\ pc = "checkKey"
    /\ IF ~Truthy(env)
       THEN Respond(JsonResponse(500, [error |-> ErrMissingKey]))
       ELSE pc' = "auth" /\ UNCHANGED resp
    /\ UNCHANGED <<options, env, req, authResult, model, language, authCalls,
                   formReads, stdCalls, streamCalls, stdResult, upstream>>

\* server.ts:150: whether the value authenticate returned lets the request pass.
IsAuthenticatedAlways(v) == TRUE

IsAuthenticated(v) == Truthy(v)

\* server.ts:147-156: authenticate returns a value, or throws.
Authenticate ==
    /\ UNCHANGED notSrv
    /\ pc = "auth"
    /\ IF Truthy(options.authenticate)
       THEN \/ \E v \in AuthReturns :
                  /\ authCalls' = authCalls + 1
                  /\ authResult' = v
                  /\ IF ~IsAuthenticated(v)
                     THEN Respond(JsonResponse(401, [error |-> ErrUnauthorized]))
                     ELSE pc' = "form" /\ UNCHANGED resp
            \/ \E isError \in BOOLEAN :
                  /\ authCalls' = authCalls + 1
                  /\ authResult' = "<throws>"
                  /\ Respond(CatchResponse(Thrown(isError, <<"auth failed">>, 0)))
       ELSE pc' = "form" /\ UNCHANGED <<authCalls, authResult, resp>>
    /\ UNCHANGED <<options, env, req, model, language, formReads, stdCalls,
                   streamCalls, stdResult, upstream>>

\* server.ts:158-176: the form is read, the fields taken, the audio required
\* and turned into bytes.
ParseForm ==
    /\ UNCHANGED notSrv
    /\ pc = "form"
    /\ formReads' = formReads + 1
    /\ IF ~req.valid
       THEN /\ Respond(CatchResponse(Thrown(TRUE, <<"Failed to parse body as FormData.">>, 0)))
            /\ UNCHANGED <<model, language>>
       ELSE /\ language' = OrElse(req.language, Undefined)
            /\ model' = ChooseModel(req.model, options.defaultModel)
            /\ IF ~Truthy(req.audio)
               THEN Respond(JsonResponse(400, [error |-> ErrAudioRequired]))
               ELSE IF req.audio # FileValue
               THEN Respond(CatchResponse(
                        Thrown(TRUE, <<"audioFile.arrayBuffer is not a function">>, 0)))
               ELSE pc' = "standard" /\ UNCHANGED resp
    /\ UNCHANGED <<options, env, req, authResult, authCalls, stdCalls,
                   streamCalls, stdResult, upstream>>

\* server.ts:92-113: transcribeAudio's standard attempt; a failure leaves the
\* standard attempt behind and goes to the fallback.
AfterStandardFailureRetry == IF stdCalls = <<>> THEN "standard" ELSE "streaming"

AfterStandardFailure == "streaming"

TranscribeStandard ==
    /\ UNCHANGED notSrv
    /\ pc = "standard"
    /\ stdCalls' = Append(stdCalls, [model |-> ModelOrDefault(model), language |-> language])
    /\ \E r \in StandardResults :
          /\ stdResult' = r
          /\ IF r.ok
             THEN Respond(JsonResponse(200, [text |-> r.text, language |-> r.language]))
             ELSE pc' = AfterStandardFailure /\ UNCHANGED resp
    /\ UNCHANGED <<options, env, req, authResult, model, language, authCalls,
                   formReads, streamCalls, upstream>>

\* server.ts:25-74 with the handler's catch: the fallback's single POST, and
\* what the handler answers for each outcome of it.
TranscribeStreaming ==
    /\ UNCHANGED notSrv
    /\ pc = "streaming"
    /\ streamCalls' = Append(streamCalls,
                             [model |-> ModelOrDefault(model), language |-> language])
    /\ \/ /\ upstream' = [kind |-> "fetchRejects", status |-> 0, chunks |-> <<>>]
          /\ Respond(CatchResponse(Thrown(TRUE, <<"fetch failed">>, 0)))
       \/ \E s \in UpstreamStatuses :
             /\ ~(s >= 200 /\ s <= 299)
             /\ upstream' = [kind |-> "status", status |-> s, chunks |-> <<>>]
             /\ Respond(CatchResponse(Thrown(TRUE, StreamFailedMessage(s), s)))
       \/ \E s \in UpstreamStatuses :
             /\ s >= 200 /\ s <= 299
             /\ upstream' = [kind |-> "noBody", status |-> s, chunks |-> <<>>]
             /\ Respond(CatchResponse(Thrown(TRUE, NoBodyMessage, 0)))
       \/ \E s \in UpstreamStatuses, chunks \in SampleStreams :
             /\ s >= 200 /\ s <= 299
             /\ upstream' = [kind |-> "status", status |-> s, chunks |-> chunks]
             /\ Respond(JsonResponse(200, [text |-> StreamingText(chunks)]))
    /\ UNCHANGED <<options, env, req, authResult, model, language, authCalls,
                   formReads, stdCalls, stdResult>>

SrvNext ==
    \/ Receive
    \/ CheckApiKey
    \/ Authenticate
    \/ ParseForm
    \/ TranscribeStandard
    \/ TranscribeStreaming

----------------------------------------------------------------------------
(* Claims about the handler                                                 *)

TranscriptionStarted == stdCalls # <<>> \/ streamCalls # <<>>

AuthPassed ==
    \/ ~Truthy(options.authenticate) /\ authCalls = 0
    \/ /\ Truthy(options.authenticate)
       /\ authCalls = 1
       /\ authResult \in AuthReturns
       /\ authResult \notin {JsFalse, Undefined, Null, JsZero, ""}

AuthRejected ==
    /\ Truthy(options.authenticate)
    /\ authCalls = 1
    /\ authResult \in {JsFalse, Undefined, Null, JsZero, ""}

\* C1: a transcription is started for a request only if no authenticate option
\* was given or authenticate(req) returned a truthy value; when authenticate
\* returns a falsy value the handler answers 401 {error: 'Unauthorized'} and
\* never reads the form data; without the option authenticate is never called.
C1_AuthenticationGatesTranscription ==
    /\ TranscriptionStarted => AuthPassed
    /\ AuthRejected =>
          /\ pc = "done"
          /\ resp = [status |-> 401, body |-> [error |-> "Unauthorized"]]
          /\ formReads = 0
          /\ ~TranscriptionStarted
    /\ options.authenticate = Undefined => authCalls = 0 /\ authResult = Undefined

C1_Witness ==
    /\ pc = "done"
    /\ env = "sk-test"
    /\ authResult = JsZero
    /\ req.valid /\ req.audio = FileValue
    /\ resp.status = 401

\* C2: the checks are applied in the order API key, authentication, 'audio'
\* field, and the first failing check alone determines the response: a missing
\* key gives 500 'Missing OPENAI_API_KEY environment variable' without a call of
\* authenticate, a rejected authentication gives 401, a form without 'audio'
\* gives 400 'Audio file is required'; transcription is attempted only when all
\* three pass, and a success then gives 200.
C2_ChecksInOrder ==
    /\ (env \in {Undefined, ""} /\ pc \notin {"idle", "checkKey"}) =>
          /\ pc = "done"
          /\ resp = [status |-> 500,
                     body |-> [error |-> "Missing OPENAI_API_KEY environment variable"]]
          /\ authCalls = 0
          /\ formReads = 0
          /\ ~TranscriptionStarted
    /\ (env = "sk-test" /\ AuthRejected) =>
          /\ pc = "done"
          /\ resp.status = 401
          /\ formReads = 0
    /\ (env = "sk-test" /\ AuthPassed /\ req.valid /\ req.audio = Null /\ pc = "done") =>
          /\ resp = [status |-> 400, body |-> [error |-> "Audio file is required"]]
          /\ formReads = 1
          /\ ~TranscriptionStarted
    /\ TranscriptionStarted =>
          /\ env = "sk-test"
          /\ AuthPassed
          /\ req.valid /\ req.audio \notin {Null, ""}
    /\ (pc = "done" /\ stdCalls # <<>> /\ stdResult.ok) => resp.status = 200
    /\ (pc = "done" /\ streamCalls # <<>> /\ upstream.kind = "status"
            /\ upstream.status \in 200..299) => resp.status = 200

C2_Witness ==
    /\ pc = "done"
    /\ env = "sk-test"
    /\ authCalls = 1
    /\ authResult = "user-1"
    /\ req.valid /\ req.audio = Null
    /\ resp.status = 400

UpstreamFailed ==
    /\ pc = "done"
    /\ streamCalls # <<>>
    /\ upstream.kind = "status"
    /\ upstream.status \notin 200..299

\* C3 as stated: when the upstream transcription endpoint answers with a
\* non-success HTTP status, the handler's Response carries that same status.
C3_UpstreamStatusForwarded ==
    UpstreamFailed => resp.status = upstream.status

\* C3 as amended: when the streaming endpoint answers with a non-success HTTP
\* status s, the handler's Response has status 500 and the body
\* {error: 'Failed to transcribe audio',
\*  details: 'OpenAI streaming transcription failed: s'}: the upstream status is
\* reported in the details text only.
C3_UpstreamStatusInDetailsOnly ==
    UpstreamFailed =>
        resp = [status |-> 500,
                body |-> [error |-> "Failed to transcribe audio",
                          details |-> <<"OpenAI streaming transcription failed: ",
                                        upstream.status>>]]

C3_Witness == UpstreamFailed /\ upstream.status = 429 /\ resp.status = 500

\* C4: transcribeAudio makes exactly one standard attempt and at most one
\* fallback call to the streaming endpoint; the fallback happens only after the
\* standard attempt has failed, neither call is repeated, and when the standard
\* attempt succeeds no streaming request is sent and its (text, language) is
\* the result.
C4_OneAttemptOneFallback ==
    /\ Len(stdCalls) <= 1
    /\ Len(streamCalls) <= 1
    /\ pc = "streaming" => Len(stdCalls) = 1 /\ ~stdResult.ok
    /\ streamCalls # <<>> => Len(stdCalls) = 1 /\ ~stdResult.ok
    /\ (pc = "done" /\ resp.status = 200) => Len(stdCalls) = 1
    /\ (stdCalls # <<>> /\ stdResult.ok) =>
          /\ streamCalls = <<>>
          /\ pc = "done"
          /\ resp = [status |-> 200,
                     body |-> [text |-> stdResult.text, language |-> stdResult.language]]

C4_Witness ==
    /\ pc = "done"
    /\ Len(stdCalls) = 1
    /\ Len(streamCalls) = 1
    /\ resp.status = 200
    /\ resp.body.text = Hi

\* The model the claim C6 names for the request in hand.
ExpectedModel ==
    IF req.model \notin {Null, ""} THEN req.model
    ELSE IF options.defaultModel # Undefined THEN options.defaultModel
    ELSE "gpt-4o-transcribe"

\* C6: the model used to transcribe a request is the request's 'model' field
\* when present and non-empty, otherwise the defaultModel option when set,
\* otherwise 'gpt-4o-transcribe'; it is used for the standard call and, if it
\* happens, for the fallback streaming call.
C6_ModelChoice ==
    /\ \A i \in 1..Len(stdCalls) : stdCalls[i].model = ExpectedModel
    /\ \A i \in 1..Len(streamCalls) : streamCalls[i].model = ExpectedModel

C6_Witness ==
    /\ req.valid /\ req.model = ""
    /\ options.defaultModel = "whisper-1"
    /\ Len(stdCalls) = 1 /\ stdCalls[1].model = "whisper-1"
    /\ Len(streamCalls) = 1 /\ streamCalls[1].model = "whisper-1"


----------------------------------------------------------------------------
(* transcribeStreaming reading one response body chunk by chunk             *)
(* (server.ts:49-73)                                                        *)

Yo == <<"y", "o">>

\* Response bodies in the SSE format of server.ts:59: plain-text events, JSON
\* events with the end mark, a number.
SampleBodies == {
    DataPrefix \o Hi \o <<Newline>> \o DataPrefix \o <<Space>> \o Yo \o <<Newline>>,
    DataPrefix \o JsonTextOpen \o Hi \o JsonTextClose \o <<Newline, Newline>>
        \o DataPrefix \o DoneMark \o <<Newline>>,
    DataPrefix \o <<"4", "2">> \o <<Newline>> \o DataPrefix \o Hi,
    <<>> }

StreamIdle ==
    /\ body = <<>>
    /\ readPos = 0
    /\ text = <<>>
    /\ readerPc = "done"
    /\ transcript = <<>>

StreamInit ==
    /\ body \in SampleBodies
    /\ readPos = 0
    /\ text = <<>>
    /\ readerPc = "reading"
    /\ transcript = <<>>

\* server.ts:56-70: reader.read() hands out the next n characters, which are
\* split into lines and added to the text.
ReadChunk ==
    /\ UNCHANGED notStream
    /\ readerPc = "reading"
    /\ \E n \in 1..(Len(body) - readPos) :
          /\ text' = text \o ChunkText(SubSeq(body, readPos + 1, readPos + n))
          /\ readPos' = readPos + n
    /\ UNCHANGED <<body, readerPc, transcript>>

\* server.ts:57 and 73: the stream is done, the text is trimmed and returned.
ReadDone ==
    /\ UNCHANGED notStream
    /\ readerPc = "reading"
    /\ readPos = Len(body)
    /\ readerPc' = "done"
    /\ transcript' = Trim(text)
    /\ UNCHANGED <<body, readPos, text>>

StreamNext ==
    \/ ReadChunk
    \/ ReadDone

\* The transcript C5 names: the payloads of all the 'data: ' lines of the whole
\* response, in order, trimmed.
ExpectedTranscript == Trim(LinesText(SplitLines(body)))

\* C5: transcribeStreaming returns the in-order concatenation of the payloads
\* of all 'data: ' lines of the response (the text field of a JSON payload, the
\* raw payload otherwise, '[DONE]' lines excluded), trimmed, whatever way the
\* stream reader divides the response into chunks.
C5_TranscriptIndependentOfChunking ==
    readerPc = "done" => transcript = ExpectedTranscript


----------------------------------------------------------------------------
(* useSpeechToText (use-speech-to-text.ts:59-118)                           *)

\* How many calls of transcribe may be in flight at once.
MaxCalls == 2

CallIds == 1..MaxCalls

\* The values of data and error: null, and the response bodies of the declared
\* types SpeechToTextResponse and SpeechToTextErrorResponse.
JsonNull == [type |-> "null"]
JsonTranscript == [type |-> "object", text |-> Hi]
JsonEmptyTranscript == [type |-> "object", text |-> <<>>]
JsonUnauthorized == [type |-> "object", error |-> "Unauthorized"]
JsonAudioRequired == [type |-> "object", error |-> "Audio file is required"]
NetworkError(details) ==
    [type |-> "object", error |-> "Network error", details |-> details]

\* What fetch and response.json() can give a call (use-speech-to-text.ts:78-83).
FetchOutcomes == {
    [kind |-> "fetchRejects", ok |-> FALSE, json |-> JsonNull],
    [kind |-> "jsonRejects", ok |-> TRUE, json |-> JsonNull],
    [kind |-> "jsonRejects", ok |-> FALSE, json |-> JsonNull],
    [kind |-> "json", ok |-> TRUE, json |-> JsonTranscript],
    [kind |-> "json", ok |-> TRUE, json |-> JsonEmptyTranscript],
    [kind |-> "json", ok |-> FALSE, json |-> JsonUnauthorized],
    [kind |-> "json", ok |-> FALSE, json |-> JsonAudioRequired] }

NoOutcome == [kind |-> "none", ok |-> FALSE, json |-> JsonNull]
NoResult == [data |-> JsonNull, error |-> JsonNull]

IdleCall ==
    [pc |-> "idle", outcome |-> NoOutcome, result |-> NoResult,
     onSuccess |-> 0, onError |-> 0]

\* use-speech-to-text.ts:60-64
InitialState == [data |-> JsonNull, error |-> JsonNull, isLoading |-> FALSE]

HookIdle ==
    /\ hookOptions = [onSuccess |-> Undefined, onError |-> Undefined]
    /\ state = InitialState
    /\ calls = [c \in CallIds |-> IdleCall]

HookInit ==
    /\ hookOptions \in [onSuccess : {Undefined, "function"},
                        onError : {Undefined, "function"}]
    /\ state = InitialState
    /\ calls = [c \in CallIds |-> IdleCall]

\* A callback, when called, returns or throws.
CallbackEnds == {"returns", "throws"}

\* use-speech-to-text.ts:69-81: transcribe is called; the state is marked
\* loading and the request sent.
TranscribeStart(c) ==
    /\ UNCHANGED notHook
    /\ calls[c].pc # "fetching"
    /\ state' = [state EXCEPT !.isLoading = TRUE, !.error = JsonNull]
    /\ calls' = [calls EXCEPT ![c] = [IdleCall EXCEPT !.pc = "fetching"]]
    /\ UNCHANGED hookOptions

\* use-speech-to-text.ts:96-104: the catch block, entered with the callbacks
\* run so far; its own onError may throw, and then the call rejects.
Caught(c, o, details, ranSuccess, ranError) ==
    LET error == NetworkError(details)
    IN /\ state' = [data |-> JsonNull, error |-> error, isLoading |-> FALSE]
       /\ IF hookOptions.onError = Undefined
          THEN calls' = [calls EXCEPT ![c] =
                   [pc |-> "resolved", outcome |-> o,
                    result |-> [data |-> JsonNull, error |-> error],
                    onSuccess |-> ranSuccess, onError |-> ranError]]
          ELSE \E end \in CallbackEnds :
                   calls' = [calls EXCEPT ![c] =
                       [pc |-> IF end = "throws" THEN "rejected" ELSE "resolved",
                        outcome |-> o,
                        result |-> IF end = "throws" THEN NoResult
                                   ELSE [data |-> JsonNull, error |-> error],
                        onSuccess |-> ranSuccess, onError |-> ranError + 1]]

\* use-speech-to-text.ts:83-104: the request of call c settles with outcome o,
\* and the rest of transcribe runs to its end.
Settle(c, o) ==
    /\ calls[c].pc = "fetching"
    /\ IF o.kind \in {"fetchRejects", "jsonRejects"}
       THEN Caught(c, o, "fetch or json failed", 0, 0)
       ELSE IF ~o.ok
       THEN \* use-speech-to-text.ts:85-90
            \/ /\ hookOptions.onError # Undefined
               /\ Caught(c, o, "onError threw", 0, 1)
            \/ /\ state' = [data |-> JsonNull, error |-> o.json, isLoading |-> FALSE]
               /\ calls' = [calls EXCEPT ![c] =
                     [pc |-> "resolved", outcome |-> o,
                      result |-> [data |-> JsonNull, error |-> o.json],
                      onSuccess |-> 0,
                      onError |-> IF hookOptions.onError = Undefined THEN 0 ELSE 1]]
       ELSE \* use-speech-to-text.ts:92-95
            \/ /\ hookOptions.onSuccess # Undefined
               /\ Caught(c, o, "onSuccess threw", 1, 0)
            \/ /\ state' = [data |-> o.json, error |-> JsonNull, isLoading |-> FALSE]
               /\ calls' = [calls EXCEPT ![c] =
                     [pc |-> "resolved", outcome |-> o,
                      result |-> [data |-> o.json, error |-> JsonNull],
                      onSuccess |-> IF hookOptions.onSuccess = Undefined THEN 0 ELSE 1,
                      onError |-> 0]]

TranscribeSettle(c) ==
    /\ UNCHANGED notHook
    /\ \E o \in FetchOutcomes : Settle(c, o)
    /\ UNCHANGED hookOptions

\* use-speech-to-text.ts:109-111
Reset ==
    /\ UNCHANGED notHook
    /\ state' = InitialState
    /\ UNCHANGED <<hookOptions, calls>>

HookNext ==
    \/ \E c \in CallIds : TranscribeStart(c)
    \/ \E c \in CallIds : TranscribeSettle(c)
    \/ Reset

Settled(c) == calls[c].pc \in {"resolved", "rejected"}

\* Call c settles in this step while no other call is in flight.
SettlesAlone(c) ==
    /\ calls[c].pc = "fetching"
    /\ calls'[c].pc # "fetching"
    /\ \A d \in CallIds \ {c} : calls[d].pc # "fetching"

\* What C7 says of the settled call c and the state after it.
SettledAsClaimed(c) ==
    LET o == calls'[c].outcome
        r == calls'[c].result
    IN /\ calls'[c].pc = "resolved"
       /\ state'.isLoading = FALSE
       /\ (state'.data # JsonNull) # (state'.error # JsonNull)
       /\ r = [data |-> state'.data, error |-> state'.error]
       /\ (o.kind = "json" /\ o.ok) => (r.data = o.json /\ r.error = JsonNull)
       /\ (o.kind = "json" /\ ~o.ok) => (r.data = JsonNull /\ r.error = o.json)
       /\ o.kind \in {"fetchRejects", "jsonRejects"} =>
              (r.data = JsonNull /\ r.error # JsonNull /\ r.error.error = "Network error")

\* C7: when a transcribe call settles and no other call is in flight, the state
\* has isLoading = false and exactly one of data and error non-null, and the
\* call's {data, error} equals the state: an ok response gives data = the JSON,
\* a non-ok response gives error = the JSON, a failure of fetch or of the JSON
\* decoding gives error.error = 'Network error'; the call never rejects.
C7_SettledStateMatchesResult ==
    [][\A c \in CallIds : SettlesAlone(c) => SettledAsClaimed(c)]_vars

\* C8: for each call of transcribe exactly one of the two callbacks is invoked,
\* exactly once: onSuccess when the transcription succeeded, onError when it
\* failed, never both.
C8_ExactlyOneCallback ==
    (hookOptions.onSuccess # Undefined /\ hookOptions.onError # Undefined) =>
        \A c \in CallIds : Settled(c) =>
            /\ calls[c].onSuccess + calls[c].onError = 1
            /\ (calls[c].outcome.kind = "json" /\ calls[c].outcome.ok)
                   => calls[c].onSuccess = 1
            /\ ~(calls[c].outcome.kind = "json" /\ calls[c].outcome.ok)
                   => calls[c].onError = 1


----------------------------------------------------------------------------
(* ChatView (part_002:190-448)                                              *)

\* How many recorders the component may make, and how many messages it may send.
MaxRecorders == 3
MaxSends == 2

RecorderIds == 1..MaxRecorders

Statuses == {"idle", "filling", "clarifying", "complete", "error"}

\* What the user may type into the textarea.
Drafts == {<<>>, <<Space>>, <<"a">>, <<Space, "a", Space>>}

\* A recorder not made yet.
NoRecorder ==
    [state |-> "none", stream |-> "none", stopQueued |-> FALSE, onstop |-> "none"]

ChatIdle ==
    /\ input = <<>>
    /\ status = "idle"
    /\ enableVoice = FALSE
    /\ isRecording = FALSE
    /\ isProcessingAudio = FALSE
    /\ mediaRecorder = 0
    /\ recorders = [r \in RecorderIds |-> NoRecorder]
    /\ pendingMedia = 0
    /\ audioChunks = 0
    /\ sent = <<>>

\* part_002:200-220: the component mounts.
ChatInit ==
    /\ input = <<>>
    /\ status \in Statuses
    /\ enableVoice \in BOOLEAN
    /\ isRecording = FALSE
    /\ isProcessingAudio = FALSE
    /\ mediaRecorder = 0
    /\ recorders = [r \in RecorderIds |-> NoRecorder]
    /\ pendingMedia = 0
    /\ audioChunks = 0
    /\ sent = <<>>
    /\ state = InitialState

\* part_002:335-337
isLoading == status = "filling"
isTranscribing == state.isLoading
isVoiceProcessing == isRecording \/ isProcessingAudio \/ isTranscribing

\* part_002:413, 429, 434: the disabled attributes.
VoiceButtonDisabled == isLoading \/ isTranscribing
TextareaDisabled == isLoading \/ isVoiceProcessing
SendButtonDisabled == Trim(input) = <<>> \/ isLoading \/ isVoiceProcessing

RecordersMade == {r \in RecorderIds : recorders[r].state # "none"}

\* part_002:302-309: stopRecording
StopRecording ==
    /\ IF mediaRecorder # 0 /\ recorders[mediaRecorder].state # "inactive"
       THEN recorders' = [recorders EXCEPT ![mediaRecorder].state = "inactive",
                                           ![mediaRecorder].stopQueued = TRUE]
       ELSE UNCHANGED recorders
    /\ isRecording' = FALSE
    /\ UNCHANGED pendingMedia

\* part_002:240-242: startRecording up to its await of getUserMedia
StartRecording ==
    /\ Cardinality(RecordersMade) + pendingMedia < MaxRecorders
    /\ pendingMedia' = pendingMedia + 1
    /\ UNCHANGED <<recorders, isRecording>>

\* part_002:311-318 with the button at 410-421: a click on the voice button.
ClickVoiceButton ==
    /\ UNCHANGED notChat
    /\ enableVoice
    /\ ~VoiceButtonDisabled
    /\ IF isRecording THEN StopRecording ELSE StartRecording
    /\ UNCHANGED <<input, status, enableVoice, isProcessingAudio, mediaRecorder,
                   audioChunks, sent, state>>

\* part_002:242-295: getUserMedia resolves; the recorder is made and started.
MediaGranted ==
    /\ UNCHANGED notChat
    /\ pendingMedia > 0
    /\ LET r == CHOOSE x \in RecorderIds \ RecordersMade :
                    \A y \in RecorderIds \ RecordersMade : x <= y
       IN /\ recorders' = [recorders EXCEPT ![r] =
                 [state |-> "recording", stream |-> "open",
                  stopQueued |-> FALSE, onstop |-> "none"]]
          /\ mediaRecorder' = r
    /\ audioChunks' = 0
    /\ isRecording' = TRUE
    /\ pendingMedia' = pendingMedia - 1
    /\ UNCHANGED <<input, status, enableVoice, isProcessingAudio, sent, state>>

\* part_002:296-298: getUserMedia rejects.
MediaDenied ==
    /\ UNCHANGED notChat
    /\ pendingMedia > 0
    /\ pendingMedia' = pendingMedia - 1
    /\ UNCHANGED <<input, status, enableVoice, isRecording, isProcessingAudio,
                   mediaRecorder, recorders, audioChunks, sent, state>>

\* part_002:252-267: the stopped recorder hands over its data (of some size)
\* and its onstop runs up to the await of convertToWav.
RecorderStopped(r) ==
    /\ UNCHANGED notChat
    /\ recorders[r].stopQueued
    /\ \E size \in {0, 1} :
          LET chunks == IF size > 0 THEN audioChunks + 1 ELSE audioChunks
          IN /\ audioChunks' = chunks
             /\ recorders' = [recorders EXCEPT
                    ![r].stopQueued = FALSE,
                    ![r].stream = "closed",
                    ![r].onstop = IF chunks > 0 THEN "converting" ELSE "done"]
             /\ isProcessingAudio' = IF chunks > 0 THEN TRUE ELSE isProcessingAudio
    /\ mediaRecorder' = 0
    /\ UNCHANGED <<input, status, enableVoice, isRecording, pendingMedia, sent, state>>

\* part_002:268-286 and use-speech-to-text.ts:70-81: the audio file is ready
\* (converted or not) and transcribe is called.
AudioReady(r) ==
    /\ UNCHANGED notChat
    /\ recorders[r].onstop = "converting"
    /\ recorders' = [recorders EXCEPT ![r].onstop = "transcribing"]
    /\ state' = [state EXCEPT !.isLoading = TRUE, !.error = JsonNull]
    /\ UNCHANGED <<input, status, enableVoice, isRecording, isProcessingAudio,
                   mediaRecorder, pendingMedia, audioChunks, sent>>

\* part_002:213-219: the hook's onSuccess callback.
AfterOnSuccess(prev, data) ==
    IF Trim(data.text) # <<>>
    THEN (IF prev # <<>> THEN prev \o <<Space>> \o data.text ELSE data.text)
    ELSE prev

\* use-speech-to-text.ts:83-104 as ChatView uses it (onSuccess given, no
\* onError), then part_002:287-289: the transcription settles, the hook's state
\* is set, onSuccess runs, and the finally clears isProcessingAudio.
TranscriptionSettled(r) ==
    /\ UNCHANGED notChat
    /\ recorders[r].onstop = "transcribing"
    /\ recorders' = [recorders EXCEPT ![r].onstop = "done"]
    /\ \E o \in FetchOutcomes :
          IF o.kind = "json" /\ o.ok
          THEN /\ state' = [data |-> o.json, error |-> JsonNull, isLoading |-> FALSE]
               /\ input' = AfterOnSuccess(input, o.json)
          ELSE /\ state' = [data |-> JsonNull,
                            error |-> IF o.kind = "json" THEN o.json
                                      ELSE NetworkError("fetch or json failed"),
                            isLoading |-> FALSE]
               /\ UNCHANGED input
    /\ isProcessingAudio' = FALSE
    /\ UNCHANGED <<status, enableVoice, isRecording, mediaRecorder, pendingMedia,
                   audioChunks, sent>>

\* part_002:426: the user edits the draft.
Type ==
    /\ UNCHANGED notChat
    /\ ~TextareaDisabled
    /\ input' \in Drafts
    /\ UNCHANGED <<status, enableVoice, isRecording, isProcessingAudio, mediaRecorder,
                   recorders, pendingMedia, audioChunks, sent, state>>

\* part_002:320-326: handleSend
handleSend ==
    IF Trim(input) # <<>> /\ status # "filling"
    THEN /\ Len(sent) < MaxSends
         /\ sent' = Append(sent, Trim(input))
         /\ input' = <<>>
    ELSE UNCHANGED <<sent, input>>

\* part_002:432-437: a click on the send button.
ClickSend ==
    /\ UNCHANGED notChat
    /\ ~SendButtonDisabled
    /\ handleSend
    /\ UNCHANGED <<status, enableVoice, isRecording, isProcessingAudio, mediaRecorder,
                   recorders, pendingMedia, audioChunks, state>>

\* part_002:328-333: handleKeyDown for the Enter key, with or without Shift.
PressEnter ==
    /\ UNCHANGED notChat
    /\ ~TextareaDisabled
    /\ \E shiftKey \in BOOLEAN :
          IF ~shiftKey THEN handleSend ELSE UNCHANGED <<sent, input>>
    /\ UNCHANGED <<status, enableVoice, isRecording, isProcessingAudio, mediaRecorder,
                   recorders, pendingMedia, audioChunks, state>>

\* The parent renders the component with another status.
SetStatus ==
    /\ UNCHANGED notChat
    /\ status' \in Statuses \ {status}
    /\ UNCHANGED <<input, enableVoice, isRecording, isProcessingAudio, mediaRecorder,
                   recorders, pendingMedia, audioChunks, sent, state>>

ChatNext ==
    \/ ClickVoiceButton
    \/ MediaGranted
    \/ MediaDenied
    \/ \E r \in RecorderIds : RecorderStopped(r)
    \/ \E r \in RecorderIds : AudioReady(r)
    \/ \E r \in RecorderIds : TranscriptionSettled(r)
    \/ Type
    \/ ClickSend
    \/ PressEnter
    \/ SetStatus

Recording == {r \in RecorderIds : recorders[r].state = "recording"}
OpenStreams == {r \in RecorderIds : recorders[r].stream = "open"}
ProcessingAudio == {r \in RecorderIds : recorders[r].onstop \in {"converting", "transcribing"}}
Transcribing == {r \in RecorderIds : recorders[r].onstop = "transcribing"}

\* C9: at every moment at most one MediaRecorder started by ChatView is
\* recording and at most one microphone stream is open, for every interleaving
\* of clicks on the voice button with the completion of getUserMedia and with
\* the recorders' onstop callbacks.
C9_SingleRecordingSession ==
    /\ Cardinality(Recording) <= 1
    /\ Cardinality(OpenStreams) <= 1

\* C10: onSend is called only with the non-empty trimmed draft, only while
\* status is not 'filling' and only while no recording, audio processing or
\* transcription is in progress, and the draft is empty after the send.
C10_SendOnlyWhenQuiet ==
    [][Len(sent') > Len(sent) =>
          /\ sent'[Len(sent')] = Trim(input)
          /\ Trim(input) # <<>>
          /\ status # "filling"
          /\ Recording = {}
          /\ ProcessingAudio = {}
          /\ Transcribing = {}
          /\ input' = <<>>]_vars

\* What does hold of every send: the same with the component's own flags
\* isRecording, isProcessingAudio and isTranscribing in place of what is
\* in progress.
SendOnlyWhenFlagsClear ==
    [][Len(sent') > Len(sent) =>
          /\ sent'[Len(sent')] = Trim(input)
          /\ Trim(input) # <<>>
          /\ status # "filling"
          /\ ~isRecording /\ ~isProcessingAudio /\ ~isTranscribing
          /\ input' = <<>>]_vars

----------------------------------------------------------------------------
(* FormBuilder (src/unnamed/part_004:1522-1887)                             *)
(*                                                                         *)
(* A key is text, so that key.includes('.') is computed on its characters. *)
(* A field is [key, type, order, children]: order is <<>> when the field   *)
(* has no order and <<n>> otherwise, children are the fields of an object  *)
(* or array section.  The sample forms have no condition on a root field,  *)
(* and the props and form.fields stay as they were at mount.               *)

\* A destructured prop with a default value: ({ p = d })
Default(v, d) == IF v = Undefined THEN d ELSE v

\* form.fields of useSchemaForm: the root fields and, flat, the nested ones.
\* Keys: n(ame), i(sActive), a(ddress) with a.c(ity) and a.g(eo) with a.g.x,
\* t(ags).
SampleForms ==
    LET F(key, type, order, children) ==
            [key |-> key, type |-> type, order |-> order, children |-> children]
        E(f) == [key |-> f.key, field |-> f]
        name == F(<<"n">>, "string", <<>>, <<>>)
        active == F(<<"i">>, "boolean", <<>>, <<>>)
        city == F(<<"a", ".", "c">>, "string", <<>>, <<>>)
        lat == F(<<"a", ".", "g", ".", "x">>, "number", <<>>, <<>>)
        geo == F(<<"a", ".", "g">>, "object", <<>>, <<lat>>)
        address == F(<<"a">>, "object", <<>>, <<city, geo>>)
        tags == F(<<"t">>, "array", <<>>, <<>>)
        \* a field that has lost its key: the filter at 1572 drops it
        keyless == F(<<>>, "string", <<>>, <<>>)
    IN  { <<>>,
          <<E(active)>>,
          <<E(address), E(name), E(active), E(city), E(tags)>>,
          <<E(tags), E([address EXCEPT !.order = <<1>>]), E(geo),
            [key |-> <<"k">>, field |-> keyless],
            E([name EXCEPT !.order = <<0>>]), E(active)>> }

\* The props as the caller gives them (Undefined: the prop is left out).
FormProps ==
    LET Cards == { [collapsible |-> Undefined, title |-> Undefined,
                    initialCollapsed |-> Undefined],
                   [collapsible |-> JsTrue, title |-> "title",
                    initialCollapsed |-> Undefined],
                   [collapsible |-> JsTrue, title |-> "title",
                    initialCollapsed |-> JsTrue] }
    IN  { [variant |-> v, sectionsCollapsed |-> sc, pinnedFields |-> pf,
           hiddenFields |-> hf, enableAIMode |-> ea, initialMode |-> im, ai |-> ai,
           collapsible |-> c.collapsible, title |-> c.title,
           initialCollapsed |-> c.initialCollapsed] :
            v \in {Undefined, "compact", "wizard"},
            sc \in {Undefined, JsTrue, JsFalse},
            pf \in { {}, {<<"i">>}, {<<"i">>, <<"n">>, <<"a">>, <<"t">>} },
            hf \in { {}, {<<"i">>}, {<<"a">>, <<"a", ".", "c">>} },
            ea \in {Undefined, JsTrue},
            im \in {Undefined, "ai", "edit"},
            ai \in {Undefined, "<form.ai>"},
            c \in Cards }

\* The props after destructuring with their defaults (1528-1533).
variant == Default(props.variant, "default")
enableAIMode == Default(props.enableAIMode, JsFalse)
initialMode == Default(props.initialMode, "ai")

\* const hasAI = enableAIMode && form.ai
hasAI == Truthy(enableAIMode) /\ Truthy(props.ai)

defaultModeIgnoringAvailability == initialMode

\* const defaultMode = enableAIMode && form.ai ? initialMode : 'edit'
defaultMode == IF Truthy(enableAIMode) /\ Truthy(props.ai) THEN initialMode ELSE "edit"

\* const defaultSectionsCollapsed = sectionsCollapsed ?? variant === 'compact'
defaultSectionsCollapsed ==
    IF props.sectionsCollapsed \in {Undefined, Null}
    THEN variant = "compact"
    ELSE Truthy(props.sectionsCollapsed)

\* The comparator of the sort at 1574-1579, with order ?? Infinity and
\* calculateFieldComplexity: negative, zero or positive.
CompareRootFields(a, b) ==
    LET calculateFieldComplexity(f) == IF f.type \in {"object", "array"} THEN 1 ELSE 0
    IN  IF a.order # b.order
        THEN IF a.order = <<>> THEN 1
             ELSE IF b.order = <<>> THEN -1
             ELSE a.order[1] - b.order[1]
        ELSE calculateFieldComplexity(a) - calculateFieldComplexity(b)

\* Array.prototype.sort with that comparator: a stable sort.
RECURSIVE SortRootFields(_)
SortRootFields(s) ==
    IF s = <<>> THEN <<>>
    ELSE LET e == s[Len(s)]
             sorted == SortRootFields(SubSeq(s, 1, Len(s) - 1))
             after == {i \in 1..Len(sorted) :
                          CompareRootFields(e.field, sorted[i].field) < 0}
             pos == IF after = {} THEN Len(sorted) + 1
                    ELSE CHOOSE i \in after : \A j \in after : i <= j
         IN SubSeq(sorted, 1, pos - 1) \o <<e>> \o SubSeq(sorted, pos, Len(sorted))

allRootFieldsWithHidden ==
    LET Shown(e) == e.field.key # <<>> /\ ~Includes(e.field.key, <<".">>)
    IN  SortRootFields(SelectSeq(fields, Shown))

\* The entries of form.fields that pass the filter at 1571-1573, sorted.
allRootFields ==
    LET Shown(e) == /\ e.field.key # <<>>
                    /\ ~Includes(e.field.key, <<".">>)
                    /\ e.key \notin props.hiddenFields
    IN  SortRootFields(SelectSeq(fields, Shown))

pinnedFieldEntries ==
    LET Pinned(e) == e.key \in props.pinnedFields
    IN  SelectSeq(allRootFields, Pinned)

rootFieldsWithPinned == allRootFields

rootFields ==
    LET NotPinned(e) == e.key \notin props.pinnedFields
    IN  SelectSeq(allRootFields, NotPinned)

totalSteps == Len(rootFields)

\* What FormBuilder returns, as the blocks of its output from top to bottom.
\* A block is [block, keys]: keys are the fields the block renders.
Render ==
    LET Block(name, keys) == [block |-> name, keys |-> keys]
        KeysOf(es) == [i \in 1..Len(es) |-> es[i].key]
        \* mode === 'ai' && hasAI ? aiContent : editContent (1771, 1850)
        ShowsAi == mode = "ai" /\ hasAI
        \* modeToggle / wizardModeToggle: the Tabs with the history toolbar,
        \* or the toolbar alone
        toggle == IF hasAI THEN <<Block("toggle", <<>>)>>
                  ELSE <<Block("history", <<>>)>>
        \* regularPinnedFields / wizardPinnedFields
        pinned == IF Len(pinnedFieldEntries) > 0
                  THEN <<Block("pinned", KeysOf(pinnedFieldEntries))>>
                  ELSE <<>>
        \* const [stepKey, stepField] = rootFields[currentStep] || []
        hasStepField == currentStep \in 0 .. totalSteps - 1
        wizardEditContent ==
            Block("edit", IF hasStepField THEN <<rootFields[currentStep + 1].key>>
                          ELSE <<>>)
        editContent == Block("edit", KeysOf(rootFields))
        aiContent == Block("ai", <<>>)
        content == toggle \o pinned \o <<IF ShowsAi THEN aiContent ELSE editContent>>
    IN  IF variant = "wizard"
        THEN IF ~hasStepField /\ Len(rootFields) = 0
             THEN <<>>
             ELSE toggle \o pinned
                  \o <<IF ShowsAi THEN aiContent ELSE wizardEditContent>>
        ELSE IF Truthy(Default(props.collapsible, JsFalse)) /\ Truthy(props.title)
             THEN <<Block("header", <<>>)>> \o (IF isCollapsed THEN <<>> ELSE content)
             ELSE (IF Truthy(props.title) THEN <<Block("title", <<>>)>> ELSE <<>>)
                  \o content

Renders(name) == \E i \in 1..Len(Render) : Render[i].block = name

FormIdle ==
    /\ props = [variant |-> Undefined, sectionsCollapsed |-> Undefined,
                pinnedFields |-> {}, hiddenFields |-> {},
                enableAIMode |-> Undefined, initialMode |-> Undefined,
                ai |-> Undefined, collapsible |-> Undefined,
                title |-> Undefined, initialCollapsed |-> Undefined]
    /\ fields = <<>>
    /\ currentStep = 0
    /\ mode = "edit"
    /\ isCollapsed = FALSE

\* The section of field f and the sections nested in it, each with the way it
\* starts: FormSection's useState(defaultCollapsed || initialCollapsed), with
\* defaultCollapsed = variant === 'compact' ? level > 0 : level > 2
\* (1024-1026).  renderChildren gives a nested section of an object
\* level + 1, the same variant and initialCollapsed = (itemIndex !==
\* undefined), which is false outside an array item (1128-1143); the sample
\* arrays hold no sections.
RECURSIVE SectionStarts(_, _, _, _)
SectionStarts(f, sectionVariant, level, initialCollapsedProp) ==
    LET defaultCollapsed == IF sectionVariant = "compact" THEN level > 0
                            ELSE level > 2
    IN  {[key |-> f.key, collapsed |-> defaultCollapsed \/ initialCollapsedProp]}
        \cup UNION {SectionStarts(f.children[i], sectionVariant, level + 1, FALSE) :
                      i \in {j \in 1..Len(f.children) :
                                f.children[j].type \in {"object", "array"}}}

\* The sections FormBuilder's renderField makes of the regular and step
\* fields (1615-1627): level 0, collapsed as defaultSectionsCollapsed says
\* except in the wizard, which passes false and the variant 'compact'.
RootSectionStarts ==
    UNION {SectionStarts(rootFields[i].field,
                         IF variant = "wizard" THEN "compact" ELSE variant,
                         0,
                         IF variant = "wizard" THEN FALSE
                         ELSE defaultSectionsCollapsed) :
             i \in {j \in 1..Len(rootFields) :
                       rootFields[j].field.type \in {"object", "array"}}}

NextStepSkipping(s, total) == IF total - 1 <= s + 2 THEN total - 1 ELSE s + 2

\* (s) => Math.min(totalSteps - 1, s + 1)
NextStep(s, total) == IF total - 1 <= s + 1 THEN total - 1 ELSE s + 1

\* A click on Previous (1707-1714), on the page when the wizard shows its
\* steps: (s) => Math.max(0, s - 1); a disabled button takes no click.
ClickPrevious ==
    /\ UNCHANGED notForm
    /\ variant = "wizard" /\ Renders("edit")
    /\ currentStep' = IF currentStep = 0 THEN currentStep
                      ELSE IF 0 >= currentStep - 1 THEN 0 ELSE currentStep - 1
    /\ UNCHANGED <<props, fields, mode, isCollapsed>>

\* A click on Next (1715-1722)
ClickNext ==
    /\ UNCHANGED notForm
    /\ variant = "wizard" /\ Renders("edit")
    /\ currentStep' = IF currentStep = totalSteps - 1 THEN currentStep
                      ELSE NextStep(currentStep, totalSteps)
    /\ UNCHANGED <<props, fields, mode, isCollapsed>>

\* A click on the dot of step idx (1679-1690)
ClickDot(idx) ==
    /\ UNCHANGED notForm
    /\ variant = "wizard" /\ Renders("edit")
    /\ idx \in 0 .. Len(rootFields) - 1
    /\ currentStep' = idx
    /\ UNCHANGED <<props, fields, mode, isCollapsed>>

\* The user picks a tab of the AI/Edit toggle: Tabs calls onValueChange with
\* the tab's value, which is setMode (1744-1748, 1826-1830).
ChangeMode(tab) ==
    /\ UNCHANGED notForm
    /\ Renders("toggle")
    /\ mode' = tab
    /\ UNCHANGED <<props, fields, currentStep, isCollapsed>>

\* A click on the header of the collapsible card (1855-1858)
ClickHeader ==
    /\ UNCHANGED notForm
    /\ Renders("header")
    /\ isCollapsed' = ~isCollapsed
    /\ UNCHANGED <<props, fields, currentStep, mode>>

FormNext ==
    \/ ClickPrevious
    \/ ClickNext
    \/ \E idx \in 0 .. Len(rootFields) - 1 : ClickDot(idx)
    \/ \E tab \in {"ai", "edit"} : ChangeMode(tab)
    \/ ClickHeader

\* C11: in the wizard variant, after any sequence of Previous, Next and
\* step-dot clicks the step index is within 0..totalSteps-1; Previous at the
\* first step and Next at the last step leave it unchanged, Previous and Next
\* otherwise change it by exactly one, and a click on dot i sets it to i.
C11_StepIndexInRange ==
    /\ [](variant = "wizard" /\ totalSteps > 0 => currentStep \in 0 .. totalSteps - 1)
    /\ [][/\ ClickPrevious =>
               currentStep' = IF currentStep = 0 THEN 0 ELSE currentStep - 1
          /\ ClickNext =>
               currentStep' = IF currentStep = totalSteps - 1
                              THEN currentStep ELSE currentStep + 1
          /\ \A i \in 0 .. totalSteps - 1 : ClickDot(i) => currentStep' = i]_vars

\* The wizard has reached the last of at least three steps.
C11_Witness ==
    /\ variant = "wizard"
    /\ totalSteps >= 3
    /\ currentStep = totalSteps - 1
    /\ Renders("edit")

\* The form's body is on the page: not the empty wizard (1648), not the
\* collapsed card (1868).
BodyRendered == Renders("toggle") \/ Renders("history")

\* The keys a block of the output renders.
RenderedKeys ==
    UNION {{Render[i].keys[j] : j \in 1..Len(Render[i].keys)} : i \in 1..Len(Render)}

ShownRootKeys ==
    {fields[i].key : i \in {j \in 1..Len(fields) :
        /\ fields[j].field.key # <<>>
        /\ \A n \in 1..Len(fields[j].field.key) : fields[j].field.key[n] # "."
        /\ fields[j].key \notin props.hiddenFields}}

\* C13: every root field that is not hidden is either a pinned field or a
\* regular/step field, never both and never neither; the pinned fields are
\* rendered above the mode content in both AI and Edit mode and, in the
\* wizard variant, on every step.
C13_PinnedOrRegular ==
    LET pinnedKeys == {pinnedFieldEntries[i].key : i \in 1..Len(pinnedFieldEntries)}
        regularKeys == {rootFields[i].key : i \in 1..Len(rootFields)}
    IN  /\ pinnedKeys \cup regularKeys = ShownRootKeys
        /\ pinnedKeys \cap regularKeys = {}
        /\ pinnedKeys = ShownRootKeys \cap props.pinnedFields
        /\ \A i \in 1..Len(Render) :
               Render[i].block \in {"ai", "edit"} /\ pinnedKeys # {} =>
                   /\ i > 1
                   /\ Render[i - 1].block = "pinned"
                   /\ {Render[i - 1].keys[j] : j \in 1..Len(Render[i - 1].keys)}
                          = pinnedKeys

\* The wizard on a later step, with a pinned field above the step.
C13_Witness ==
    /\ variant = "wizard"
    /\ currentStep >= 1
    /\ Renders("pinned")
    /\ Renders("edit")

\* AI is available: enableAIMode is true and form.ai is configured.
AiAvailable == props.enableAIMode = JsTrue /\ props.ai # Undefined

\* C14: the AI chat is displayed only when AI is available (enableAIMode is
\* true and form.ai is configured) and the mode is 'ai', and the edit
\* content in every other case; the mode starts as initialMode (default
\* 'ai') when AI is available at mount and as 'edit' otherwise; the AI/Edit
\* toggle is rendered only when AI is available; a toggle change sets the
\* mode to the chosen tab.
C14_ModeSelectsContent ==
    /\ mode = IF AiAvailable
              THEN (IF props.initialMode = Undefined THEN "ai"
                    ELSE props.initialMode)
              ELSE "edit"
    /\ [](/\ Renders("ai") => AiAvailable /\ mode = "ai"
          /\ BodyRendered =>
                /\ Renders("ai") <=> (AiAvailable /\ mode = "ai")
                /\ Renders("edit") <=> ~(AiAvailable /\ mode = "ai")
          /\ Renders("toggle") => AiAvailable)
    /\ [][\A tab \in {"ai", "edit"} : ChangeMode(tab) => mode' = tab]_vars

\* AI is available, the form started in AI mode and the user has switched it
\* to Edit.
C14_Witness ==
    /\ hasAI
    /\ defaultMode = "ai"
    /\ mode = "edit"
    /\ Renders("toggle")
    /\ Renders("edit")

\* C15: when sectionsCollapsed is specified, every object/array section of
\* the form, nested ones included, starts collapsed when it is true and
\* expanded when it is false, also in the compact variant.
C15_SectionsCollapsedDecides ==
    props.sectionsCollapsed # Undefined =>
        \A s \in RootSectionStarts : s.collapsed = (props.sectionsCollapsed = JsTrue)

----------------------------------------------------------------------------
(* DiscriminatedUnionSection (src/unnamed/part_004:818-979)                 *)
(*                                                                         *)
(* A value of the form data is [t, v]: its JavaScript type and its text,   *)
(* so that 1 and '1' are different values with the same String().  A child *)
(* is [key, type, condition, literalOptions], condition being <<>> or      *)
(* <<[field, value]>>.  form.data is kept as the value at each child's     *)
(* key; getNestedValue reads it and form.updateField writes it.            *)

UnionIdle ==
    /\ unionField = [key |-> "", children |-> <<>>]
    /\ formData = <<>>

\* String(option) (912)
JsString(value) == [t |-> "string", v |-> value.v]

\* The discriminant (838-848): the first child of type 'literal' without a
\* condition.
discriminantEntry ==
    LET found == {i \in 1..Len(unionField.children) :
                     /\ unionField.children[i].type = "literal"
                     /\ unionField.children[i].condition = <<>>}
    IN  unionField.children[CHOOSE i \in found : \A j \in found : i <= j]

\* form.updateField(path, value) on the data d
updateField(d, path, value) == [d EXCEPT ![path] = value]

\* What the section renders (855-873, 910-975): the options whose button has
\* the variant 'default', and the keys of the conditional fields shown.
\* unionTypes is keyed by the text of condition.value, as object keys are.
UnionRender ==
    LET selectedType == formData[discriminantEntry.key]
        truthy == IF selectedType.t = "string" THEN selectedType.v # ""
                  ELSE IF selectedType.t = "number" THEN selectedType.v # "0"
                  ELSE FALSE
        conditional == {i \in 1..Len(unionField.children) :
                           /\ unionField.children[i].key # discriminantEntry.key
                           /\ unionField.children[i].condition # <<>>}
        group == {i \in conditional :
                     unionField.children[i].condition[1].value.v = selectedType.v}
    IN  [selected |-> {i \in 1..Len(discriminantEntry.literalOptions) :
                          selectedType = discriminantEntry.literalOptions[i]},
         shown |-> IF truthy
                   THEN {unionField.children[i].key :
                            i \in {j \in group :
                                unionField.children[j].condition[1].value
                                    = selectedType}}
                   ELSE {}]

\* handleTypeChange (875-889): the discriminant takes newType, then every
\* other child with a condition whose value !== newType is set to undefined.
handleTypeChange(newType) ==
    /\ UNCHANGED notUnion
    /\ formData' =
         LET RECURSIVE Clear(_, _)
             Clear(d, i) ==
                 IF i > Len(unionField.children) THEN d
                 ELSE Clear(IF /\ unionField.children[i].key # discriminantEntry.key
                               /\ unionField.children[i].condition # <<>>
                               /\ unionField.children[i].condition[1].value # newType
                            THEN updateField(d, unionField.children[i].key,
                                             [t |-> "undefined", v |-> ""])
                            ELSE d,
                            i + 1)
         IN  Clear(updateField(formData, discriminantEntry.key, newType), 1)
    /\ UNCHANGED unionField

\* The user types into a conditional field that is shown (960-964).
ChangeField(path, value) ==
    /\ UNCHANGED notUnion
    /\ path \in UnionRender.shown
    /\ formData' = updateField(formData, path, [t |-> "string", v |-> value])
    /\ UNCHANGED unionField

\* A click on the button of an option (911-925)
UnionNext ==
    \/ \E i \in 1..Len(discriminantEntry.literalOptions) :
          handleTypeChange(JsString(discriminantEntry.literalOptions[i]))
    \/ \E path \in DOMAIN formData, value \in {"x", "y"} : ChangeField(path, value)

\* C17: choosing a type sets the discriminant field to the chosen option,
\* sets to undefined every sibling field whose condition value differs from
\* the chosen option, and changes no other field of the form data;
\* afterwards exactly the fields whose condition value is the chosen option
\* are rendered, and the chosen option's button is the one shown as selected.
C17_TypeChoiceSetsAndClears ==
    [][\A i \in 1..Len(discriminantEntry.literalOptions) :
        LET option == discriminantEntry.literalOptions[i]
            siblings == {j \in 1..Len(unionField.children) :
                            unionField.children[j].key # discriminantEntry.key}
            Conditioned(j, value) ==
                /\ unionField.children[j].condition # <<>>
                /\ unionField.children[j].condition[1].value = value
        IN  handleTypeChange(JsString(option)) =>
                /\ formData'[discriminantEntry.key] = option
                /\ \A j \in siblings :
                       formData'[unionField.children[j].key] =
                           IF /\ unionField.children[j].condition # <<>>
                              /\ ~Conditioned(j, option)
                           THEN [t |-> "undefined", v |-> ""]
                           ELSE formData[unionField.children[j].key]
                /\ UnionRender'.shown =
                       {unionField.children[j].key :
                           j \in {k \in siblings : Conditioned(k, option)}}
                /\ UnionRender'.selected = {i}]_vars

----------------------------------------------------------------------------
(* Tabs with a queryKey (src/unnamed/part_001:8-84), uncontrolled           *)
(*                                                                         *)
(* window.location.search is kept as URLSearchParams reads it: the list of *)
(* its [name, value] pairs.  The session history is the list of the query  *)
(* strings of its entries, and current is the entry the window shows.      *)

TabsIdle ==
    /\ tabsProps = [queryKey |-> Undefined, defaultValue |-> Undefined]
    /\ internalValue = Undefined
    /\ entries = <<>>
    /\ current = 0
    /\ tabsPc = "rendered"

\* new URLSearchParams(window.location.search).get(queryKey) || defaultValue
\* (23-24, 34-35): get gives the value of the first pair of that name, or null.
UrlValueOrDefault(search) ==
    LET named == {i \in 1..Len(search) : search[i].name = tabsProps.queryKey}
        got == IF named = {} THEN Null
               ELSE search[CHOOSE i \in named : \A j \in named : i <= j].value
    IN  OrElse(got, tabsProps.defaultValue)

\* url.searchParams.set(queryKey, value) (55): the first pair of that name
\* takes the value and the other pairs of that name go; without such a pair
\* one is appended.
SearchParamsSet(search, value) ==
    LET named == {i \in 1..Len(search) : search[i].name = tabsProps.queryKey}
        first == CHOOSE i \in named : \A j \in named : i <= j
        Kept(i) == i \notin named \/ i = first
        RECURSIVE Build(_)
        Build(i) ==
            IF i > Len(search) THEN <<>>
            ELSE (IF ~Kept(i) THEN <<>>
                  ELSE IF i = first
                       THEN <<[name |-> tabsProps.queryKey, value |-> value]>>
                       ELSE <<search[i]>>) \o Build(i + 1)
    IN  IF named = {}
        THEN Append(search, [name |-> tabsProps.queryKey, value |-> value])
        ELSE Build(1)

MountEffectWithoutSync ==
    /\ UNCHANGED notTabs
    /\ tabsPc = "rendered"
    /\ tabsPc' = "mounted"
    /\ UNCHANGED <<tabsProps, internalValue, entries, current>>

\* The effect after the first render (30-45): syncFromUrl() and the popstate
\* listener.
MountEffect ==
    /\ UNCHANGED notTabs
    /\ tabsPc = "rendered"
    /\ internalValue' = UrlValueOrDefault(entries[current])
    /\ tabsPc' = "mounted"
    /\ UNCHANGED <<tabsProps, entries, current>>

\* The user goes back or forward to the entry at index to; the window fires
\* popstate, and the listener, once added, runs syncFromUrl (33-37, 43).
PopState(to) ==
    /\ UNCHANGED notTabs
    /\ to \in 1..Len(entries) /\ to # current
    /\ current' = to
    /\ internalValue' = IF tabsPc = "mounted" THEN UrlValueOrDefault(entries[to])
                        ELSE internalValue
    /\ UNCHANGED <<tabsProps, entries, tabsPc>>

\* The user selects a tab: Radix calls onValueChange (47-63).
handleValueChange(value) ==
    /\ UNCHANGED notTabs
    /\ internalValue' = value
    /\ entries' = [entries EXCEPT ![current] = SearchParamsSet(entries[current], value)]
    /\ UNCHANGED <<tabsProps, current, tabsPc>>

TabsNext ==
    \/ MountEffect
    \/ \E to \in 1..Len(entries) : PopState(to)
    \/ \E value \in {"a", "b"} : handleValueChange(value)

\* C16: for an uncontrolled Tabs with a queryKey, after mount and after any
\* sequence of tab selections and popstate events the selected tab is the
\* value of the queryKey parameter of the current URL, or defaultValue when
\* the parameter is absent or empty; a tab selection replaces the current
\* history entry and adds none.
C16_SelectedTabFollowsUrl ==
    /\ [](tabsPc = "mounted" =>
            internalValue =
                IF \A i \in 1..Len(entries[current]) :
                       entries[current][i].name # tabsProps.queryKey
                THEN tabsProps.defaultValue
                ELSE LET i == CHOOSE i \in 1..Len(entries[current]) :
                                 /\ entries[current][i].name = tabsProps.queryKey
                                 /\ \A j \in 1..(i - 1) :
                                        entries[current][j].name # tabsProps.queryKey
                     IN  IF entries[current][i].value = ""
                         THEN tabsProps.defaultValue
                         ELSE entries[current][i].value)
    /\ [][\A value \in {"a", "b"} :
            handleValueChange(value) =>
                /\ Len(entries') = Len(entries)
                /\ current' = current
                /\ \A e \in 1..Len(entries) : e # current => entries'[e] = entries[e]
                /\ \E i \in 1..Len(entries'[current]) :
                       entries'[current][i] = [name |-> tabsProps.queryKey,
                                                value |-> value]]_vars

\* The user has selected a tab, gone to another entry and come back with the
\* tab still in the URL.
C16_Witness ==
    /\ tabsPc = "mounted"
    /\ Len(entries) >= 2
    /\ current = 1
    /\ internalValue = "b"
    /\ entries[1] # entries[Len(entries)]
    /\ \E i \in 1..Len(entries[1]) :
           entries[1][i] = [name |-> tabsProps.queryKey, value |-> "b"]

----------------------------------------------------------------------------
(* Specifications                                                           *)

SrvIdle ==
    /\ options = [authenticate |-> Undefined, defaultModel |-> Undefined]
    /\ env = Undefined
    /\ req = NoRequest
    /\ pc = "idle"
    /\ authResult = Undefined
    /\ model = Undefined
    /\ language = Undefined
    /\ authCalls = 0
    /\ formReads = 0
    /\ stdCalls = <<>>
    /\ streamCalls = <<>>
    /\ stdResult = NoStdResult
    /\ upstream = NoUpstream
    /\ resp = NoResp

\* The handler serving requests.
Init == SrvInit /\ StreamIdle /\ HookIdle /\ ChatIdle /\ FormIdle /\ UnionIdle /\ TabsIdle

Next == SrvNext

Spec == Init /\ [][Next]_vars

\* transcribeStreaming reading one response.
StreamSpecInit ==
    StreamInit /\ SrvIdle /\ HookIdle /\ ChatIdle /\ FormIdle /\ UnionIdle /\ TabsIdle

StreamSpec == StreamSpecInit /\ [][StreamNext]_vars

\* useSpeechToText with calls of transcribe and reset.
HookSpecInit ==
    HookInit /\ SrvIdle /\ StreamIdle /\ ChatIdle /\ FormIdle /\ UnionIdle /\ TabsIdle

HookSpec == HookSpecInit /\ [][HookNext]_vars

\* ChatView with the user, the microphone, the recorders and the transcriptions.
ChatSpecInit ==
    /\ ChatInit
    /\ hookOptions = [onSuccess |-> "function", onError |-> Undefined]
    /\ calls = [c \in CallIds |-> IdleCall]
    /\ SrvIdle
    /\ StreamIdle
    /\ FormIdle
    /\ UnionIdle
    /\ TabsIdle

ChatSpec == ChatSpecInit /\ [][ChatNext]_vars

\* FormBuilder with the clicks of its user.
\* The state after FormBuilder's first render (part_004:1540-1543).
FormInit ==
    /\ props \in FormProps
    /\ fields \in SampleForms
    /\ currentStep = 0
    /\ mode = defaultMode
    /\ isCollapsed = Truthy(Default(props.initialCollapsed, JsFalse))
    /\ UnionIdle /\ TabsIdle
    /\ SrvIdle /\ StreamIdle /\ HookIdle /\ ChatIdle

FormSpec == FormInit /\ [][FormNext]_vars

\* Tabs with the selections of its user and the browser's back and forward.
\* The state after the first render: useState(getInitialValue) (21-27).
TabsInit ==
    /\ tabsProps \in [queryKey : {"tab"}, defaultValue : {Undefined, "a"}]
    /\ entries \in
         LET P(n, v) == [name |-> n, value |-> v]
         IN  { <<<<>>>>,
               <<<<P("tab", "b")>>, <<>>>>,
               <<<<P("x", "1")>>, <<P("x", "1"), P("tab", "")>>>>,
               <<<<P("tab", "a"), P("x", "1"), P("tab", "b")>>,
                 <<P("tab", "zz")>>, <<P("x", "1")>>>> }
    /\ current \in 1..Len(entries)
    /\ internalValue = UrlValueOrDefault(entries[current])
    /\ tabsPc = "rendered"
    /\ FormIdle /\ UnionIdle
    /\ SrvIdle /\ StreamIdle /\ HookIdle /\ ChatIdle

TabsSpec == TabsInit /\ [][TabsNext]_vars

\* DiscriminatedUnionSection with the choices and the typing of its user.
\* The sections are a payment with the options 'card', 'bank' and 'cash' and
\* a versioned record with the options 1 and 2; the data holds anything.
UnionInit ==
    LET S(s) == [t |-> "string", v |-> s]
        N(s) == [t |-> "number", v |-> s]
        C(key, type, condition, literalOptions) ==
            [key |-> key, type |-> type, condition |-> condition,
             literalOptions |-> literalOptions]
        When(path, value) == <<[field |-> path, value |-> value]>>
        Values(child) ==
            IF child.type = "literal" /\ child.condition = <<>>
            THEN {[t |-> "undefined", v |-> ""]}
                 \cup {child.literalOptions[i] : i \in 1..Len(child.literalOptions)}
            ELSE {[t |-> "undefined", v |-> ""], S("x"), S("y")}
        Child(key) ==
            unionField.children[CHOOSE i \in 1..Len(unionField.children) :
                                    unionField.children[i].key = key]
    IN  /\ unionField \in
              { [key |-> "pay",
                 children |->
                   << C("pay.note", "string", <<>>, <<>>),
                      C("pay.type", "literal", <<>>,
                        <<S("card"), S("bank"), S("cash")>>),
                      C("pay.number", "string", When("pay.type", S("card")), <<>>),
                      C("pay.iban", "string", When("pay.type", S("bank")), <<>>),
                      C("pay.bic", "string", When("pay.type", S("bank")), <<>>) >>],
                [key |-> "doc",
                 children |->
                   << C("doc.version", "literal", <<>>, <<N("1"), N("2")>>),
                      C("doc.title", "string", When("doc.version", N("1")), <<>>),
                      C("doc.body", "string", When("doc.version", N("2")), <<>>) >>] }
        /\ formData \in
              { d \in [{unionField.children[i].key : i \in 1..Len(unionField.children)}
                          -> {[t |-> "undefined", v |-> ""], S("x"), S("y"), S("card"),
                              S("bank"), S("cash"), N("1"), N("2")}] :
                    \A key \in DOMAIN d : d[key] \in Values(Child(key)) }
        /\ FormIdle /\ TabsIdle
        /\ SrvIdle /\ StreamIdle /\ HookIdle /\ ChatIdle

UnionSpec == UnionInit /\ [][UnionNext]_vars

====
